---------------------------- MODULE Spec2Model ----------------------------
(***************************************************************************)
(* Session lifecycle and signaling coordination of the ephemeral chat      *)
(* backend: the Redis-backed SessionStore (session-store.ts) and, further  *)
(* down, the WebSocket SignalingService (signaling-service.ts).            *)
(*                                                                         *)
(* Granularity.  Node runs every handler synchronously between two awaits, *)
(* and every await in this code is a Redis command.  One step of the model *)
(* is therefore: the reply of the pending command is consumed, the code    *)
(* runs up to its next Redis command, and that command takes effect on the *)
(* store.  Time is in milliseconds, as Date.now().                         *)
(***************************************************************************)
EXTENDS Integers, Sequences, FiniteSets, TLC

\* ------------------------------------------------------------------ bounds
SessionIds == {"s1"}     \* the session most runs follow
Uuids == SessionIds \cup {"s2"}   \* every session id uuidv4() hands out
Callers == {"k1", "k2", "k3"}
MaxCalls == 3      \* store calls started by the direct callers, in total
MaxTicks == 3      \* the clock stops after this many ticks
TickMs == 1000 \div 2   \* the clock advances by half a second
ExpiryChoices == {1}   \* expiresInSeconds values handed to createSession

None == [none |-> TRUE]

VARIABLES
    store,     \* Redis: session id -> None or [session, until] (until: key TTL deadline)
    issued,    \* session ids already handed out by uuidv4()
    now,       \* Date.now()
    calls,     \* direct callers of the store: caller -> store call in flight, or None
    tally,     \* per session: how the direct callers' finished calls ended
    http,      \* the last response of the Control API, None before the first
    cs,        \* the browser clients: the SessionManager behind each connection
    ws,        \* readyState of each connection's WebSocket
    clients,   \* SignalingService.clients: connection -> ClientInfo or None
    sessions,  \* SignalingService.sessions: session id -> reference to a Set, 0 if absent
    sets,      \* the Set<WebSocket> objects, by reference
    h,         \* the message handler in flight on each connection
    leaves,    \* the un-awaited leaveSession started by each connection's close
    inbox,     \* the messages the relay has sent to each connection, in order
    nauth,     \* auth messages received so far
    nmsg,      \* other messages received so far
    pend       \* the relay's store calls awaiting a reply, oldest command first

storeVars == <<store, issued, now>>
callVars == <<calls, tally, http, cs>>
relayVars == <<ws, clients, sessions, sets, h, leaves, inbox, nauth, nmsg, pend>>

\* ------------------------------------------------------------ SessionStore
\* status as joinSession assigns it (only 1 and 2 are assigned; 0 cannot arise
\* after an increment and keeps the previous status).
JoinStatus(session) ==
    IF session.participant_count = 1 THEN "JOINED"
    ELSE IF session.participant_count = 2 THEN "CLOSED"
    ELSE session.status

LeaveStatusNeverOpen(count) ==
    IF count = 1 THEN "JOINED" ELSE "CLOSED"

\* status as leaveSession assigns it.
LeaveStatus(count) ==
    IF count = 0 THEN "OPEN" ELSE IF count = 1 THEN "JOINED" ELSE "CLOSED"

Max(a, b) == IF a >= b THEN a ELSE b

\* client.get(key): the value Redis holds for the key.
RedisGet(st, sid) == IF st[sid] = None THEN None ELSE st[sid].session

\* client.setEx(key, ttl, json): the key lives until ttl seconds from now.
RedisSetEx(st, sid, ttl, session, t) ==
    [st EXCEPT ![sid] = [session |-> session, until |-> t + ttl * 1000]]

\* client.del(key)
RedisDel(st, sid) == [st EXCEPT ![sid] = None]

\* createSession: the record written for a new id.
NewSession(sid, expiresInSeconds, t) ==
    [session_id |-> sid,
     expires_at |-> t + expiresInSeconds * 1000,
     status |-> "OPEN",
     participant_count |-> 0,
     created_at |-> t]

UpdateTtlUnclamped(session, t) == (session.expires_at - t) \div 1000

\* updateSession: ttl = max(1, floor(remaining / 1000)); setEx when ttl > 0,
\* deleteSession otherwise.
UpdateTtl(session, t) == Max(1, (session.expires_at - t) \div 1000)

UpdateSession(st, session, t) ==
    IF UpdateTtl(session, t) > 0
    THEN RedisSetEx(st, session.session_id, UpdateTtl(session, t), session, t)
    ELSE RedisDel(st, session.session_id)

ExpiredNever(session, t) == FALSE

\* getSession's expiry test on a parsed record.
Expired(session, t) == t > session.expires_at

IsFullOffByOne(session) == session.participant_count > 2

\* joinSession's capacity test.
IsFull(session) == session.participant_count >= 2

JoinedRecordRenewed(session) ==
    LET s1 == [session EXCEPT !.participant_count = @ + 1]
    IN  [s1 EXCEPT !.status = JoinStatus(s1), !.expires_at = @ + 1000]

\* joinSession's local mutation of the record it read.
JoinedRecord(session) ==
    LET s1 == [session EXCEPT !.participant_count = @ + 1]
    IN  [s1 EXCEPT !.status = JoinStatus(s1)]

LeftRecordNoFloor(session) ==
    LET n == session.participant_count - 1
    IN  [session EXCEPT !.participant_count = n, !.status = LeaveStatus(n)]

\* leaveSession's local mutation of the record it read.
LeftRecord(session) ==
    LET n == Max(0, session.participant_count - 1)
    IN  [session EXCEPT !.participant_count = n, !.status = LeaveStatus(n)]

(***************************************************************************)
(* A store call in flight: op is the method, pc the Redis command whose    *)
(* reply is pending ("get", "del", "set") or "ret" once the method has     *)
(* returned; data is the method's local `session` (its return value once   *)
(* pc = "ret"; None is null).                                              *)
(***************************************************************************)
CallStart(op, sid, st) ==
    [op |-> op, sid |-> sid, pc |-> "get", data |-> RedisGet(st, sid)]

Returned(call, data) == [call EXCEPT !.pc = "ret", !.data = data]

\* The code that runs once getSession has returned `session` (not null).
AfterGetSession(call, st, t) ==
    IF call.op = "get"
    THEN [call |-> Returned(call, call.data), store |-> st]
    ELSE IF call.op = "join"
    THEN IF IsFull(call.data)
         THEN [call |-> Returned(call, None), store |-> st]
         ELSE [call |-> [call EXCEPT !.pc = "set", !.data = JoinedRecord(call.data)],
               store |-> UpdateSession(st, JoinedRecord(call.data), t)]
    ELSE [call |-> [call EXCEPT !.pc = "set", !.data = LeftRecord(call.data)],
          store |-> UpdateSession(st, LeftRecord(call.data), t)]

\* One resumption of a store call: [call, store] afterwards.
CallStep(call, st, t) ==
    IF call.pc = "get"
    THEN IF call.data = None
         THEN [call |-> Returned(call, None), store |-> st]
         ELSE IF Expired(call.data, t)
         THEN [call |-> [call EXCEPT !.pc = "del"], store |-> RedisDel(st, call.sid)]
         ELSE AfterGetSession(call, st, t)
    ELSE IF call.pc = "del"
    THEN [call |-> Returned(call, None), store |-> st]
    ELSE [call |-> Returned(call, call.data), store |-> st]

\* ------------------------------------------------- store-level operations
\* POST /sessions -> createSession with a fresh uuid.
CreateSession(sid, secs) ==
    /\ sid \notin issued
    /\ issued' = issued \cup {sid}
    /\ store' = RedisSetEx(store, sid, secs, NewSession(sid, secs, now), now)
    /\ UNCHANGED now

DEFAULT_EXPIRY == 900
MAX_EXPIRY == 3600

Min(a, b) == IF a <= b THEN a ELSE b

\* The expires_in_seconds of a request body: absent, or an integer.
NoRequest == [given |-> FALSE, value |-> 0]
Requested(n) == [given |-> TRUE, value |-> n]
Requests ==
    {NoRequest} \cup {Requested(n) : n \in {-1, 0, 1, 2, MAX_EXPIRY, MAX_EXPIRY + 1}}

ExpiresInSecondsUnclamped(req) ==
    IF ~req.given \/ req.value = 0 THEN DEFAULT_EXPIRY ELSE req.value

\* Math.min(req.body.expires_in_seconds || DEFAULT_EXPIRY, MAX_EXPIRY): `||`
\* takes the default for an absent field and for 0.
ExpiresInSeconds(req) ==
    Min(IF ~req.given \/ req.value = 0 THEN DEFAULT_EXPIRY ELSE req.value, MAX_EXPIRY)

\* Redis answers SETEX with an error unless the expire time is positive.
SetExAccepts(ttl) == ttl > 0

\* new Date(ms).toISOString(): the instant to the millisecond, seconds and
\* milliseconds in separate fields of the text.
ToISOString(ms) == [seconds |-> ms \div 1000, millis |-> ms % 1000]

\* POST /sessions: 201 with the session's id and expiry, or 500 when
\* createSession throws; the id is drawn before createSession is called.
PostSessions(sid, req) ==
    IF SetExAccepts(ExpiresInSeconds(req))
    THEN /\ CreateSession(sid, ExpiresInSeconds(req))
         /\ http' = [status |-> 201,
                      session_id |-> sid,
                      expires_at |-> ToISOString(now + ExpiresInSeconds(req) * 1000),
                      expires_in_seconds |-> ExpiresInSeconds(req)]
    ELSE /\ sid \notin issued
         /\ issued' = issued \cup {sid}
         /\ http' = [status |-> 500, error |-> "Failed to create session"]
         /\ UNCHANGED <<store, now>>

\* The clock advances; Redis drops the keys whose TTL has run out.
Tick ==
    /\ now + TickMs <= MaxTicks * TickMs
    /\ now' = now + TickMs
    /\ store' = [sid \in Uuids |->
                    IF store[sid] # None /\ store[sid].until <= now + TickMs
                    THEN None ELSE store[sid]]
    /\ UNCHANGED issued

RECURSIVE SumOver(_, _)
SumOver(f, S) ==
    IF S = {} THEN 0
    ELSE LET x == CHOOSE y \in S : TRUE IN f[x] + SumOver(f, S \ {x})

CallsStarted ==
    SumOver([sid \in SessionIds |->
                tally[sid].joinOk + tally[sid].joinRej + tally[sid].leaves
                    + tally[sid].getOk + tally[sid].getNull + tally[sid].dels],
            SessionIds)
        + Cardinality({k \in Callers : calls[k] # None})

\* A caller invokes getSession, joinSession or leaveSession directly on the store.
StartCall(k, op, sid) ==
    /\ calls[k] = None
    /\ CallsStarted < MaxCalls
    /\ calls' = [calls EXCEPT ![k] = CallStart(op, sid, store)]
    /\ UNCHANGED <<storeVars, tally, http, cs, relayVars>>

\* The caller's call is resumed once.
ResumeCall(k) ==
    /\ calls[k] # None
    /\ LET r == CallStep(calls[k], store, now)
       IN  /\ store' = r.store
           /\ IF r.call.pc # "ret"
              THEN /\ calls' = [calls EXCEPT ![k] = r.call]
                   /\ UNCHANGED tally
              ELSE /\ calls' = [calls EXCEPT ![k] = None]
                   /\ tally' =
                        IF r.call.op = "leave"
                        THEN [tally EXCEPT ![r.call.sid].leaves = @ + 1]
                        ELSE IF r.call.op = "get"
                        THEN IF r.call.data = None
                             THEN [tally EXCEPT ![r.call.sid].getNull = @ + 1]
                             ELSE [tally EXCEPT ![r.call.sid].getOk = @ + 1]
                        ELSE IF r.call.data = None
                        THEN [tally EXCEPT ![r.call.sid].joinRej = @ + 1]
                        ELSE [tally EXCEPT ![r.call.sid].joinOk = @ + 1]
    /\ UNCHANGED <<issued, now, http, cs, relayVars>>

\* DELETE /sessions/:id -> deleteSession: one DEL, whatever the key holds.
\* The ids a client can name are those POST /sessions has handed out.
DeleteSession(sid) ==
    /\ sid \in issued
    /\ CallsStarted < MaxCalls
    /\ store' = RedisDel(store, sid)
    /\ tally' = [tally EXCEPT ![sid].dels = @ + 1]
    /\ http' = [status |-> 204]
    /\ UNCHANGED <<issued, now, calls, cs, relayVars>>

\* ------------------------------------------------------- SignalingService
\* The connections, named in the order in which their first message arrives.
ConnSeq == <<"A", "B", "C">>
Conns == {ConnSeq[i] : i \in 1 .. Len(ConnSeq)}
Rank(c) == CHOOSE i \in 1 .. Len(ConnSeq) : ConnSeq[i] = c
MaxAuths == 3      \* auth messages received, in total

\* References to Set objects: one per `new Set()` that can be alive at once.
SetIds == 1 .. (Cardinality(Conns) + Cardinality(Uuids))

Idle == [pc |-> "idle"]

AckMsg(role, n) ==
    [type |-> "auth", success |-> TRUE, role |-> role, participant_count |-> n]
ReadyMsg == [type |-> "ready", participants |-> 2]
PeerLeftMsg == [type |-> "peer-left"]
ErrorMsg(e) == [type |-> "error", error |-> e]

\* send(ws, message) to every connection of `targets`: only an OPEN socket is written.
Send(box, targets, m) ==
    [d \in Conns |-> IF d \in targets /\ ws[d] = "OPEN"
                     THEN Append(box[d], m) ELSE box[d]]

\* sendError(ws, error)
SendError(box, c, e) == Send(box, {c}, ErrorMsg(e))

\* The Set objects still referenced, by the sessions map or by a handler's local
\* `sessionClients`; the others are garbage and are kept empty.
Referenced(sess, hh) ==
    {sess[sid] : sid \in Uuids}
        \cup {hh[c].sc : c \in {d \in Conns : hh[d].pc # "idle"}}

Collect(ss, sess, hh) ==
    [i \in SetIds |-> IF i \in Referenced(sess, hh) THEN ss[i] ELSE {}]

\* `new Set()`: a reference no one holds.
FreshSet == CHOOSE i \in SetIds :
    /\ i \notin Referenced(sessions, h)
    /\ \A j \in SetIds : j \notin Referenced(sessions, h) => i <= j

IsStaleClosedOnly(d) == ws[d] = "CLOSED"

\* readyState === CLOSED || readyState === CLOSING
IsStale(d) == ws[d] \in {"CLOSING", "CLOSED"}

AtCapacityOffByOne(members) == Cardinality(members) > 2

\* handleAuth's capacity test on the local `sessionClients`.
AtCapacity(members) == Cardinality(members) >= 2

RoleForSwapped(members) ==
    IF Cardinality(members) = 0 THEN "responder" ELSE "initiator"

\* handleAuth's role for a new registration.
RoleFor(members) == IF Cardinality(members) = 0 THEN "initiator" ELSE "responder"


(***************************************************************************)
(* The store has one Redis client: commands are executed and answered in   *)
(* the order in which they were sent.  The code waiting for a reply runs a  *)
(* number of promise continuations after it (one per `await` between the    *)
(* command and that code), so of two replies read together the later one's  *)
(* code can run first only if it is fewer continuations away.               *)
(***************************************************************************)
Handler(c) == [kind |-> "auth", conn |-> c]
Leave(c) == [kind |-> "leave", conn |-> c]

PendingCall(e) == IF e.kind = "auth" THEN h[e.conn].call ELSE leaves[e.conn]

\* Continuations between the pending reply of `call` and the code that acts
\* on it: getSession itself (expired: deleteSession), its caller, or
\* handleAuth behind joinSession / leaveSession / updateSession.
Ticks(call) ==
    IF call.pc = "get"
    THEN IF call.data # None /\ Expired(call.data, now) THEN 1
         ELSE IF call.op = "get" THEN 2
         ELSE IF call.data = None \/ (call.op = "join" /\ IsFull(call.data)) THEN 3
         ELSE 2
    ELSE IF call.pc = "del"
    THEN IF call.op = "get" THEN 3 ELSE 4
    ELSE 3

\* The code waiting in e can run now: no call whose command of the same kind
\* was sent earlier is waiting at most as many continuations away.
MayResume(e) ==
    \E i \in 1 .. Len(pend) :
        /\ pend[i] = e
        /\ \A j \in 1 .. (i - 1) :
              \/ PendingCall(pend[j]).pc # PendingCall(e).pc
              \/ Ticks(PendingCall(e)) < Ticks(PendingCall(pend[j]))

\* pend once e's reply is consumed, e having sent a further command or not.
Requeued(e, again) ==
    LET rest == SelectSeq(pend, LAMBDA x : x # e)
    IN  IF again THEN Append(rest, e) ELSE rest

RelayInit ==
    /\ ws = [c \in Conns |-> "NONE"]
    /\ clients = [c \in Conns |-> None]
    /\ sessions = [sid \in Uuids |-> 0]
    /\ sets = [i \in SetIds |-> {}]
    /\ h = [c \in Conns |-> Idle]
    /\ leaves = [c \in Conns |-> None]
    /\ inbox = [c \in Conns |-> <<>>]
    /\ nauth = 0
    /\ nmsg = 0
    /\ pend = <<>>

\* The transport starts closing; its 'close' event has not been emitted yet.
TransportClosing(c) ==
    /\ ws[c] = "OPEN"
    /\ ws' = [ws EXCEPT ![c] = "CLOSING"]
    /\ UNCHANGED <<storeVars, callVars, clients, sessions, sets, h, leaves, inbox, nauth, nmsg, pend>>

\* handleAuth, lines 111-121: the capacity check and the call of joinSession,
\* for a handler holding `sc` whose Set objects are `ss`.
CheckCapacityAndJoin(c, sid, sc, ss, cl) ==
    IF AtCapacity(ss[sc])
    THEN /\ h' = [h EXCEPT ![c] = Idle]
         /\ inbox' = SendError(inbox, c, "Session is full")
         /\ sets' = Collect(ss, sessions, [h EXCEPT ![c] = Idle])
         /\ clients' = cl
         /\ UNCHANGED <<store, sessions>>
    ELSE /\ h' = [h EXCEPT ![c] = [pc |-> "join", sid |-> sid, sc |-> sc, left |-> 0,
                                    call |-> CallStart("join", sid, store)]]
         /\ sets' = ss
         /\ clients' = cl
         /\ UNCHANGED <<store, sessions, inbox>>

\* ws.on('message') with an auth message naming `sid`: handleAuth runs up to
\* its first await, store.getSession (line 85).  Accepting a transport
\* (wss.on('connection')) changes no state of the service, so a connection
\* comes into being with its first message; one handler per connection is
\* followed at a time.
StartAuth(c, sid) ==
    /\ \/ ws[c] = "OPEN"
       \/ ws[c] = "NONE" /\ \A d \in Conns : Rank(d) < Rank(c) => ws[d] # "NONE"
    /\ ws' = [ws EXCEPT ![c] = "OPEN"]
    /\ h[c].pc = "idle"
    /\ nauth' = nauth + 1
    /\ h' = [h EXCEPT ![c] = [pc |-> "exist", sid |-> sid, sc |-> 0, left |-> 0,
                              call |-> CallStart("get", sid, store)]]
    /\ pend' = Append(pend, Handler(c))
    /\ UNCHANGED <<storeVars, clients, sessions, sets, leaves, inbox, nmsg>>

\* An auth message from a sender the model does not follow any further.
RecvAuth(c, sid) == StartAuth(c, sid) /\ UNCHANGED callVars

\* handleAuth resumes from `await this.store.getSession` (line 85): the
\* existence check, the stale clean-up, and then either the first
\* leaveSession of the clean-up or the capacity check.
ResumeExist(c) ==
    /\ h[c].pc = "exist"
    /\ MayResume(Handler(c))
    /\ LET r == CallStep(h[c].call, store, now)
           sid == h[c].sid
       IN  IF r.call.pc # "ret"
           THEN /\ store' = r.store
                /\ h' = [h EXCEPT ![c].call = r.call]
                /\ UNCHANGED <<clients, sessions, sets, inbox>>
           ELSE IF r.call.data = None
           THEN /\ h' = [h EXCEPT ![c] = Idle]
                /\ inbox' = SendError(inbox, c, "Session expired or not found")
                /\ UNCHANGED <<store, clients, sessions, sets>>
           ELSE LET sc == IF sessions[sid] # 0 THEN sessions[sid] ELSE FreshSet
                    members == IF sessions[sid] # 0 THEN sets[sc] ELSE {}
                    stale == {d \in members : IsStale(d)}
                    ss == [sets EXCEPT ![sc] = members \ stale]
                    cl == [d \in Conns |-> IF d \in stale THEN None ELSE clients[d]]
                IN  IF stale # {}
                    THEN /\ h' = [h EXCEPT ![c] =
                                    [pc |-> "clean", sid |-> sid, sc |-> sc,
                                     left |-> Cardinality(stale) - 1,
                                     call |-> CallStart("leave", sid, store)]]
                         /\ sets' = ss
                         /\ clients' = cl
                         /\ UNCHANGED <<store, sessions, inbox>>
                    ELSE CheckCapacityAndJoin(c, sid, sc, ss, cl)
    /\ pend' = Requeued(Handler(c), h'[c].pc # "idle")
    /\ UNCHANGED <<issued, now, callVars, ws, leaves, nauth, nmsg>>

\* handleAuth resumes from `await this.store.leaveSession` in the clean-up
\* loop (line 106): the next iteration, or the capacity check.
ResumeClean(c) ==
    /\ h[c].pc = "clean"
    /\ MayResume(Handler(c))
    /\ LET r == CallStep(h[c].call, store, now)
       IN  IF r.call.pc # "ret"
           THEN /\ store' = r.store
                /\ h' = [h EXCEPT ![c].call = r.call]
                /\ UNCHANGED <<clients, sessions, sets, inbox>>
           ELSE IF h[c].left > 0
           THEN /\ h' = [h EXCEPT ![c].left = @ - 1,
                                  ![c].call = CallStart("leave", h[c].sid, store)]
                /\ UNCHANGED <<store, clients, sessions, sets, inbox>>
           ELSE CheckCapacityAndJoin(c, h[c].sid, h[c].sc, sets, clients)
    /\ pend' = Requeued(Handler(c), h'[c].pc # "idle")
    /\ UNCHANGED <<issued, now, callVars, ws, leaves, nauth, nmsg>>

\* handleAuth, lines 123-157: role, registration, acknowledgment, ready.
Register(c) ==
    LET sid == h[c].sid
        sc == h[c].sc
        role == RoleFor(sets[sc])
        members == sets[sc] \cup {c}
        acked == Send(inbox, {c}, AckMsg(role, Cardinality(members)))
    IN  /\ clients' = [clients EXCEPT ![c] = [sessionId |-> sid, role |-> role]]
        /\ sessions' = [sessions EXCEPT ![sid] = sc]
        /\ sets' = Collect([sets EXCEPT ![sc] = members],
                           [sessions EXCEPT ![sid] = sc], [h EXCEPT ![c] = Idle])
        /\ inbox' = IF Cardinality(members) = 2
                    THEN Send(acked, members, ReadyMsg)
                    ELSE acked
        /\ h' = [h EXCEPT ![c] = Idle]

\* handleAuth resumes from `await this.store.joinSession` (line 117).
ResumeJoin(c) ==
    /\ h[c].pc = "join"
    /\ MayResume(Handler(c))
    /\ LET r == CallStep(h[c].call, store, now)
       IN  IF r.call.pc # "ret"
           THEN /\ store' = r.store
                /\ h' = [h EXCEPT ![c].call = r.call]
                /\ UNCHANGED <<clients, sessions, sets, inbox>>
           ELSE IF r.call.data = None
           THEN /\ h' = [h EXCEPT ![c] = Idle]
                /\ inbox' = SendError(inbox, c, "Session is full")
                /\ sets' = Collect(sets, sessions, [h EXCEPT ![c] = Idle])
                /\ UNCHANGED <<store, clients, sessions>>
           ELSE /\ Register(c)
                /\ UNCHANGED store
    /\ pend' = Requeued(Handler(c), h'[c].pc # "idle")
    /\ UNCHANGED <<issued, now, callVars, ws, leaves, nauth, nmsg>>

\* ws.on('close') -> handleDisconnect.  The socket is CLOSED when the event is
\* emitted; the handler of a message received earlier keeps running.
HandleDisconnect(c) ==
    /\ ws[c] \in {"OPEN", "CLOSING"}
    /\ ws' = [ws EXCEPT ![c] = "CLOSED"]
    /\ IF clients[c] = None
       THEN UNCHANGED <<clients, sessions, sets, leaves, inbox>>
       ELSE LET sid == clients[c].sessionId
                sc == sessions[sid]
            IN  /\ clients' = [clients EXCEPT ![c] = None]
                /\ IF sc = 0
                   THEN UNCHANGED <<sessions, sets, leaves, inbox>>
                   ELSE LET rest == sets[sc] \ {c}
                            sess == IF rest = {} THEN [sessions EXCEPT ![sid] = 0]
                                    ELSE sessions
                        IN  /\ inbox' = [d \in Conns |->
                                           IF d \in rest /\ ws'[d] = "OPEN"
                                           THEN Append(inbox[d], PeerLeftMsg)
                                           ELSE inbox[d]]
                            /\ sessions' = sess
                            /\ sets' = Collect([sets EXCEPT ![sc] = rest], sess, h)
                            /\ leaves' = [leaves EXCEPT ![c] =
                                            CallStart("leave", sid, store)]
    /\ pend' = IF leaves'[c] # None THEN Append(pend, Leave(c)) ELSE pend
    /\ UNCHANGED <<storeVars, callVars, h, nauth, nmsg>>

\* The un-awaited leaveSession of a disconnect is resumed from its GET.  Nothing
\* runs after its last Redis command (only .catch is attached), so the call is
\* over once that command is issued.
ResumeLeave(c) ==
    /\ leaves[c] # None
    /\ MayResume(Leave(c))
    /\ LET r == CallStep(leaves[c], store, now)
       IN  /\ store' = r.store
           /\ leaves' = [leaves EXCEPT ![c] = None]
    /\ pend' = Requeued(Leave(c), FALSE)
    /\ UNCHANGED <<issued, now, callVars, ws, clients, sessions, sets, h, inbox, nauth, nmsg>>

\* ------------------------------------------------------------ store failures
StoreCallFailsSilently(c) ==
    /\ h[c].pc # "idle"
    /\ MayResume(Handler(c))
    /\ h' = [h EXCEPT ![c] = Idle]
    /\ sets' = Collect(sets, sessions, [h EXCEPT ![c] = Idle])
    /\ pend' = Requeued(Handler(c), FALSE)
    /\ UNCHANGED <<storeVars, callVars, ws, clients, sessions, leaves, inbox, nauth, nmsg>>

\* The Redis command a handleAuth is waiting for is answered with an error
\* (the command was executed if it got as far as Redis): the await throws
\* through handleAuth and handleMessage into the catch of the message
\* handler (lines 40-43), which sends 'Invalid message format'.
StoreCallFails(c) ==
    /\ h[c].pc # "idle"
    /\ MayResume(Handler(c))
    /\ h' = [h EXCEPT ![c] = Idle]
    /\ inbox' = SendError(inbox, c, "Invalid message format")
    /\ sets' = Collect(sets, sessions, [h EXCEPT ![c] = Idle])
    /\ pend' = Requeued(Handler(c), FALSE)
    /\ UNCHANGED <<storeVars, callVars, ws, clients, sessions, leaves, nauth, nmsg>>

\* The same for the un-awaited leaveSession of a close event: the rejection
\* ends in .catch(console.error) (lines 208, 210).
LeaveFails(c) ==
    /\ leaves[c] # None
    /\ MayResume(Leave(c))
    /\ leaves' = [leaves EXCEPT ![c] = None]
    /\ pend' = Requeued(Leave(c), FALSE)
    /\ UNCHANGED <<storeVars, callVars, ws, clients, sessions, sets, h, inbox, nauth, nmsg>>

\* A route of the Control API whose store call is rejected, the command
\* having been executed by Redis or not: the catch of the route answers 500.
Routes == {"post", "get", "delete"}

RouteError(route) ==
    CASE route = "post" -> "Failed to create session"
      [] route = "get" -> "Failed to fetch session"
      [] route = "delete" -> "Failed to delete session"

ApiStoreFails(route, sid, executed) ==
    /\ IF route = "post"
       THEN /\ sid \notin issued
            /\ issued' = issued \cup {sid}
            /\ store' = IF executed
                        THEN RedisSetEx(store, sid, DEFAULT_EXPIRY,
                                        NewSession(sid, DEFAULT_EXPIRY, now), now)
                        ELSE store
       ELSE /\ sid \in issued
            /\ store' = IF executed /\ route = "delete"
                        THEN RedisDel(store, sid) ELSE store
            /\ UNCHANGED issued
    /\ http' = [status |-> 500, error |-> RouteError(route)]
    /\ UNCHANGED <<now, calls, tally, cs, relayVars>>

\* ------------------------------------------------------- non-auth messages
MaxMsgs == 1       \* messages other than a well-formed auth, in total

RelayTypes == {"offer", "answer", "ice-candidate"}
OtherTypes == {"ready", "peer-left", "error"}

\* Payloads as JSON texts: a string, and the integer literals 2^53 + off.
StringPayload == [kind |-> "string", text |-> "sdp"]
NumberPayload(off) == [kind |-> "number", off |-> off]
Payloads == {StringPayload, NumberPayload(0), NumberPayload(1)}

\* The frames a connection may send: text that is not JSON, an auth without
\* sessionId, and messages of every other type.
Frames ==
    {[json |-> FALSE]}
        \cup {[json |-> TRUE, type |-> "auth", payload |-> StringPayload]}
        \cup {[json |-> TRUE, type |-> t, payload |-> p] : t \in RelayTypes, p \in Payloads}
        \cup {[json |-> TRUE, type |-> t, payload |-> StringPayload] : t \in OtherTypes}

\* The IEEE-754 double nearest to the integer 2^53 + off (ties to even), as
\* its offset from 2^53: doubles are 2 apart there.
ToDouble(off) ==
    CASE off % 4 = 1 -> off - 1
      [] off % 4 = 3 -> off + 1
      [] OTHER -> off

\* JSON.parse (line 38) of a frame that is JSON: numbers become doubles.
JsonParse(data) ==
    [type |-> data.type,
     payload |-> IF data.payload.kind = "number"
                 THEN NumberPayload(ToDouble(data.payload.off))
                 ELSE data.payload]

\* JSON.stringify (line 221): a double that is an integer is written with all
\* its digits, a string as it is.
JsonStringify(message) == [type |-> message.type, payload |-> message.payload]

ReplyError(c, e) == [inbox EXCEPT ![c] = Append(@, ErrorMsg(e))]

RelayMessageEcho(c, message) ==
    IF clients[c] = None
    THEN ReplyError(c, "Not authenticated")
    ELSE IF sessions[clients[c].sessionId] = 0
         THEN ReplyError(c, "Session not found")
         ELSE Send(inbox, sets[sessions[clients[c].sessionId]],
                   JsonStringify(message))

RelayMessageUnguarded(c, message) ==
    IF clients[c] = None \/ sessions[clients[c].sessionId] = 0
    THEN inbox
    ELSE Send(inbox, sets[sessions[clients[c].sessionId]] \ {c},
              JsonStringify(message))

RelayMessageNumbersDropped(c, message) ==
    IF clients[c] = None
    THEN ReplyError(c, "Not authenticated")
    ELSE IF sessions[clients[c].sessionId] = 0
         THEN ReplyError(c, "Session not found")
         ELSE IF message.payload.kind = "number"
              THEN inbox
              ELSE Send(inbox, sets[sessions[clients[c].sessionId]] \ {c},
                        JsonStringify(message))

\* relayMessage(ws, message)
RelayMessage(c, message) ==
    IF clients[c] = None
    THEN ReplyError(c, "Not authenticated")
    ELSE IF sessions[clients[c].sessionId] = 0
         THEN ReplyError(c, "Session not found")
         ELSE Send(inbox, sets[sessions[clients[c].sessionId]] \ {c},
                   JsonStringify(message))

HandleFrameRelaysAll(c, data) ==
    /\ \/ ws[c] = "OPEN"
       \/ ws[c] = "NONE" /\ \A d \in Conns : Rank(d) < Rank(c) => ws[d] # "NONE"
    /\ ws' = [ws EXCEPT ![c] = "OPEN"]
    /\ nmsg' = nmsg + 1
    /\ inbox' = IF ~data.json
                THEN ReplyError(c, "Invalid message format")
                ELSE LET message == JsonParse(data)
                     IN  CASE message.type = "auth" ->
                                 ReplyError(c, "Missing session ID")
                           [] OTHER -> RelayMessage(c, message)
    /\ UNCHANGED <<storeVars, clients, sessions, sets, h, leaves, nauth, pend>>

\* ws.on('message') with anything but an auth that names a session: the
\* handler runs to its end without awaiting a reply of the store.
HandleFrame(c, data) ==
    /\ \/ ws[c] = "OPEN"
       \/ ws[c] = "NONE" /\ \A d \in Conns : Rank(d) < Rank(c) => ws[d] # "NONE"
    /\ ws' = [ws EXCEPT ![c] = "OPEN"]
    /\ nmsg' = nmsg + 1
    /\ inbox' = IF ~data.json
                THEN ReplyError(c, "Invalid message format")
                ELSE LET message == JsonParse(data)
                     IN  CASE message.type = "auth" ->
                                 ReplyError(c, "Missing session ID")
                           [] message.type \in RelayTypes ->
                                 RelayMessage(c, message)
                           [] OTHER -> ReplyError(c, "Unknown message type")
    /\ UNCHANGED <<storeVars, clients, sessions, sets, h, leaves, nauth, pend>>

\* A frame from a sender the model does not follow any further.
RecvMessage(c, data) ==
    /\ nmsg < MaxMsgs
    /\ HandleFrame(c, data)
    /\ UNCHANGED callVars

\* ------------------------------------------------------------- the clients
\* CryptoEngine.generateSecret(): 32 random bytes as text, one value per
\* client that creates a session.
GenerateSecret(c) == [A |-> "secretA", B |-> "secretB", C |-> "secretC"][c]

\* createSession, line 71: `${origin}/#/s/${session_id}:${secret}`, as the
\* pieces of the text.
SessionUrl(sessionId, secret) == <<"origin", "/", "#", "/s/", sessionId, ":", secret>>

\* The index of the first piece of `text` that is `piece`, 0 if there is none.
IndexOf(text, piece) ==
    IF \E i \in 1 .. Len(text) : text[i] = piece
    THEN CHOOSE i \in 1 .. Len(text) :
            text[i] = piece /\ \A j \in 1 .. (i - 1) : text[j] # piece
    ELSE 0

\* SessionManager.parseSessionUrl: the text behind '#', without a leading
\* '/s/', split at its first ':'; null unless both parts are non-empty.
ParseSessionUrl(urlOrData) ==
    LET hash == IF IndexOf(urlOrData, "#") > 0
                THEN SubSeq(urlOrData, IndexOf(urlOrData, "#") + 1, Len(urlOrData))
                ELSE urlOrData
        sessionData == IF Len(hash) > 0 /\ hash[1] = "/s/" THEN Tail(hash) ELSE hash
        colonIndex == IndexOf(sessionData, ":")
    IN  IF colonIndex = 0 \/ colonIndex = 1 \/ colonIndex = Len(sessionData)
        THEN None
        ELSE [sessionId |-> sessionData[colonIndex - 1],
              secret |-> sessionData[colonIndex + 1]]

\* A SessionManager as constructed, with what the pages around it hold.
NewManager ==
    [url |-> <<>>,            \* Home: sessionUrl, empty until created
     sessionInfo |-> None,
     role |-> "none",
     keyPair |-> "none",      \* CryptoEngine.keyPair: none, being generated, there
     sharedSecret |-> {},     \* CryptoEngine.sharedSecret, empty for null
     read |-> 0,              \* messages of the socket dispatched to onmessage
     tasks |-> {},            \* handlers waiting at an await
     out |-> <<>>,            \* frames written to the socket, not yet at the relay
     sent |-> {},             \* everything the client has sent to the server
     errors |-> {}]           \* onError calls

\* The request body of createSession (line 54).
CreateBody(expiresInSeconds) == Requested(expiresInSeconds)

AuthFrameWithProof(sessionInfo) ==
    [json |-> TRUE, type |-> "auth", sessionId |-> sessionInfo.sessionId,
     proof |-> <<sessionInfo.secret, sessionInfo.sessionId>>]

\* authenticate(): the auth message.
AuthFrame(sessionInfo) ==
    [json |-> TRUE, type |-> "auth", sessionId |-> sessionInfo.sessionId]

\* exportPublicKey / importPublicKey: the raw key as URL-safe base64 text
\* and back.
ExportPublicKey(owner) == [b64 |-> owner]
ImportPublicKey(text) == text.b64

\* ECDH deriveKey: the key two key pairs agree on.
DeriveKey(own, peer) == {own, peer}

\* The frame sendSignaling writes for an offer or an answer of client c.
SignalingFrame(type, c) ==
    [json |-> TRUE, type |-> type,
     payload |-> [kind |-> "sdp", sdp |-> type, publicKey |-> ExportPublicKey(c)]]

\* Home.handleCreateSession -> SessionManager.createSession: POST /sessions,
\* then the secret and the URL.
ClientCreate(c, sid) ==
    /\ cs[c].url = <<>>
    /\ PostSessions(sid, CreateBody(DEFAULT_EXPIRY))
    /\ cs' = [cs EXCEPT ![c].sent = @ \cup {CreateBody(DEFAULT_EXPIRY)},
                         ![c].url = IF http'.status = 201
                                    THEN SessionUrl(http'.session_id, GenerateSecret(c))
                                    ELSE <<>>]
    /\ UNCHANGED <<calls, tally, relayVars>>

\* Session page: the URL someone created is opened, parsed and handed to
\* joinSession.
ClientOpen(c, a) ==
    /\ cs[a].url # <<>>
    /\ cs[c].sessionInfo = None
    /\ ParseSessionUrl(cs[a].url) # None
    /\ cs' = [cs EXCEPT ![c].sessionInfo = ParseSessionUrl(cs[a].url)]
    /\ UNCHANGED <<storeVars, calls, tally, http, relayVars>>

\* ws.onopen -> authenticate(): the auth message reaches the relay.
ClientAuthenticate(c) ==
    /\ cs[c].sessionInfo # None
    /\ ws[c] = "NONE"
    /\ StartAuth(c, AuthFrame(cs[c].sessionInfo).sessionId)
    /\ cs' = [cs EXCEPT ![c].sent = @ \cup {AuthFrame(cs[c].sessionInfo)}]
    /\ UNCHANGED <<calls, tally, http>>

\* ws.onmessage: the next message of the socket is dispatched, and
\* handleSignalingMessage runs up to its first await.
ClientDispatch(c) ==
    /\ cs[c].read < Len(inbox[c])
    /\ LET message == inbox[c][cs[c].read + 1]
           next == [cs[c] EXCEPT !.read = @ + 1]
       IN  cs' = [cs EXCEPT ![c] =
              CASE message.type = "auth" ->
                     [next EXCEPT !.role = message.role,
                                  !.keyPair = IF @ = "none" THEN "pending" ELSE @]
                [] message.type = "ready" ->
                     IF cs[c].role # "initiator" THEN next
                     ELSE IF cs[c].keyPair = "ready"
                          THEN [next EXCEPT !.tasks = @ \cup {[kind |-> "initiate"]}]
                          ELSE [next EXCEPT
                                  !.errors = @ \cup {"Failed to initiate connection"}]
                [] message.type \in {"offer", "answer"} ->
                     [next EXCEPT !.tasks = @ \cup {[kind |-> message.type,
                                                      payload |-> message.payload]}]
                [] message.type = "error" ->
                     [next EXCEPT !.errors = @ \cup {message.error}]
                [] OTHER -> next]
    /\ UNCHANGED <<storeVars, calls, tally, http, relayVars>>

\* generateKeyPair resolves: the key pair is there.
KeyPairGenerated(c) ==
    /\ cs[c].keyPair = "pending"
    /\ cs' = [cs EXCEPT ![c].keyPair = "ready"]
    /\ UNCHANGED <<storeVars, calls, tally, http, relayVars>>

\* initiateConnection after exportPublicKey and createOffer: the offer is sent.
InitiateConnection(c) ==
    /\ [kind |-> "initiate"] \in cs[c].tasks
    /\ cs' = [cs EXCEPT ![c].tasks = @ \ {[kind |-> "initiate"]},
                         ![c].out = Append(@, SignalingFrame("offer", c)),
                         ![c].sent = @ \cup {SignalingFrame("offer", c)}]
    /\ UNCHANGED <<storeVars, calls, tally, http, relayVars>>

\* handleOffer / handleAnswer after setRemoteDescription and
\* importPublicKey: deriveSharedSecret needs the own private key; after an
\* offer the answer is sent.
DeriveSharedSecret(c, task) ==
    /\ task \in cs[c].tasks
    /\ task.kind \in {"offer", "answer"}
    /\ LET done == [cs[c] EXCEPT !.tasks = @ \ {task}]
       IN  cs' = [cs EXCEPT ![c] =
              IF cs[c].keyPair # "ready"
              THEN [done EXCEPT !.errors = @ \cup {"Failed to establish connection"}]
              ELSE IF task.kind = "answer"
              THEN [done EXCEPT
                      !.sharedSecret = DeriveKey(c, ImportPublicKey(task.payload.publicKey))]
              ELSE [done EXCEPT
                      !.sharedSecret = DeriveKey(c, ImportPublicKey(task.payload.publicKey)),
                      !.out = Append(@, SignalingFrame("answer", c)),
                      !.sent = @ \cup {SignalingFrame("answer", c)}]]
    /\ UNCHANGED <<storeVars, calls, tally, http, relayVars>>

\* The message handleIceCandidate writes for a candidate of client c.
IceFrame(c) ==
    [json |-> TRUE, type |-> "ice-candidate",
     payload |-> [kind |-> "candidate", candidate |-> c]]

\* onIceCandidate -> handleIceCandidate: once the local description is set,
\* the engine reports a candidate, one per client here.
HandleIceCandidate(c) ==
    /\ \E type \in {"offer", "answer"} : SignalingFrame(type, c) \in cs[c].sent
    /\ IceFrame(c) \notin cs[c].sent
    /\ cs' = [cs EXCEPT ![c].out = Append(@, IceFrame(c)),
                         ![c].sent = @ \cup {IceFrame(c)}]
    /\ UNCHANGED <<storeVars, calls, tally, http, relayVars>>

\* The oldest frame written to c's socket reaches the relay.
ClientFrameArrives(c) ==
    /\ cs[c].out # <<>>
    /\ HandleFrame(c, Head(cs[c].out))
    /\ cs' = [cs EXCEPT ![c].out = Tail(@)]
    /\ UNCHANGED <<calls, tally, http>>


StoreInit ==
    /\ store = [sid \in Uuids |-> None]
    /\ issued = {}
    /\ now = 0
    /\ calls = [k \in Callers |-> None]
    /\ tally = [sid \in SessionIds |->
                  [joinOk |-> 0, joinRej |-> 0, leaves |-> 0,
                   getOk |-> 0, getNull |-> 0, dels |-> 0]]
    /\ http = None
    /\ cs = [c \in Conns |-> NewManager]
    /\ RelayInit

StoreNext ==
    \/ \E sid \in SessionIds, secs \in ExpiryChoices :
          CreateSession(sid, secs) /\ UNCHANGED <<callVars, relayVars>>
    \/ Tick /\ UNCHANGED <<callVars, relayVars>>
    \/ \E k \in Callers, sid \in SessionIds : StartCall(k, "join", sid)
    \/ \E k \in Callers, sid \in SessionIds : StartCall(k, "leave", sid)
    \/ \E k \in Callers : ResumeCall(k)

vars == <<store, issued, now, calls, tally, http, cs,
          ws, clients, sessions, sets, h, leaves, inbox, nauth, nmsg, pend>>

StoreSpec == StoreInit /\ [][StoreNext]_vars

\* The store under the Control API as well: GET /sessions/:id reads a
\* session and DELETE /sessions/:id removes it, among the joins and leaves.
ApiNext ==
    \/ StoreNext
    \/ \E k \in Callers, sid \in SessionIds : StartCall(k, "get", sid)
    \/ \E sid \in SessionIds : DeleteSession(sid)

ApiSpec == StoreInit /\ [][ApiNext]_vars

\* Sessions created through POST /sessions with every kind of request, and
\* then read and joined.
CreateNext ==
    \/ \E sid \in SessionIds, req \in Requests :
          PostSessions(sid, req) /\ UNCHANGED <<calls, tally, cs, relayVars>>
    \/ Tick /\ UNCHANGED <<callVars, relayVars>>
    \/ \E k \in Callers, sid \in SessionIds, op \in {"get", "join"} :
          StartCall(k, op, sid)
    \/ \E k \in Callers : ResumeCall(k)

CreateSpec == StoreInit /\ [][CreateNext]_vars

Init == StoreInit

\* The relay with its handlers interleaved at every await, within the
\* lifetime of its sessions (the clock stands still).
Next ==
    \/ \E sid \in SessionIds, secs \in ExpiryChoices :
          CreateSession(sid, secs) /\ UNCHANGED <<callVars, relayVars>>
    \/ \E c \in Conns : TransportClosing(c)
    \/ \E c \in Conns, sid \in SessionIds : nauth < MaxAuths /\ RecvAuth(c, sid)
    \/ \E c \in Conns : ResumeExist(c)
    \/ \E c \in Conns : ResumeClean(c)
    \/ \E c \in Conns : ResumeJoin(c)
    \/ \E c \in Conns : HandleDisconnect(c)
    \/ \E c \in Conns : ResumeLeave(c)

Spec == Init /\ [][Next]_vars

\* No handler and no store call of the relay is in flight.
Quiescent == \A c \in Conns : h[c].pc = "idle" /\ leaves[c] = None

\* The relay when events arrive one after the other: a message or a close is
\* taken up only once the handlers before it have finished.  The clock runs.
SeqNext ==
    \/ \E sid \in SessionIds, secs \in ExpiryChoices :
          CreateSession(sid, secs) /\ UNCHANGED <<callVars, relayVars>>
    \/ Tick /\ UNCHANGED <<callVars, relayVars>>
    \/ Quiescent /\ \E c \in Conns : TransportClosing(c)
    \/ Quiescent /\ \E c \in Conns, sid \in SessionIds :
          nauth < MaxAuths /\ RecvAuth(c, sid)
    \/ Quiescent /\ \E c \in Conns : HandleDisconnect(c)
    \/ \E c \in Conns : ResumeExist(c)
    \/ \E c \in Conns : ResumeClean(c)
    \/ \E c \in Conns : ResumeJoin(c)
    \/ \E c \in Conns : ResumeLeave(c)

SeqSpec == Init /\ [][SeqNext]_vars

\* The relay when auth handlers run one at a time and no close event falls
\* into one, while the un-awaited leaveSession calls of earlier close events
\* overlap them, for one auth more than Spec follows.  The clock stands still.
TurnAuths == MaxAuths + 1

NoAuthInFlight == \A c \in Conns : h[c].pc = "idle"

TurnNext ==
    \/ \E sid \in SessionIds, secs \in ExpiryChoices :
          CreateSession(sid, secs) /\ UNCHANGED <<callVars, relayVars>>
    \/ NoAuthInFlight /\ \E c \in Conns : TransportClosing(c)
    \/ NoAuthInFlight /\ \E c \in Conns, sid \in SessionIds :
          nauth < TurnAuths /\ RecvAuth(c, sid)
    \/ NoAuthInFlight /\ \E c \in Conns : HandleDisconnect(c)
    \/ \E c \in Conns : ResumeExist(c)
    \/ \E c \in Conns : ResumeClean(c)
    \/ \E c \in Conns : ResumeJoin(c)
    \/ \E c \in Conns : ResumeLeave(c)

TurnSpec == Init /\ [][TurnNext]_vars

\* The relay with its handlers interleaved and with messages of every kind,
\* for one auth fewer than Spec follows.
RelayAuths == MaxAuths - 1

RelayNext ==
    \/ \E sid \in SessionIds, secs \in ExpiryChoices :
          CreateSession(sid, secs) /\ UNCHANGED <<callVars, relayVars>>
    \/ \E c \in Conns : TransportClosing(c)
    \/ \E c \in Conns, sid \in SessionIds : nauth < RelayAuths /\ RecvAuth(c, sid)
    \/ \E c \in Conns, data \in Frames : RecvMessage(c, data)
    \/ \E c \in Conns : ResumeExist(c)
    \/ \E c \in Conns : ResumeClean(c)
    \/ \E c \in Conns : ResumeJoin(c)
    \/ \E c \in Conns : HandleDisconnect(c)
    \/ \E c \in Conns : ResumeLeave(c)

RelaySpec == Init /\ [][RelayNext]_vars

\* The relay with events taken one after the other, the clock running, and
\* messages of every kind.
SeqRelayNext ==
    \/ SeqNext
    \/ \E c \in Conns, data \in Frames : RecvMessage(c, data)

SeqRelaySpec == Init /\ [][SeqRelayNext]_vars

\* The clients and the relay together, while nobody disconnects and the
\* sessions last: a client creates a session, clients open its URL, and the
\* relay takes up one auth at a time.
HandshakeNext ==
    \/ \E c \in Conns, sid \in SessionIds : ClientCreate(c, sid)
    \/ \E c, a \in Conns : ClientOpen(c, a)
    \/ NoAuthInFlight /\ \E c \in Conns : ClientAuthenticate(c)
    \/ \E c \in Conns : ResumeExist(c)
    \/ \E c \in Conns : ResumeJoin(c)
    \/ \E c \in Conns : ClientDispatch(c)
    \/ \E c \in Conns : KeyPairGenerated(c)
    \/ \E c \in Conns : InitiateConnection(c)
    \/ \E c \in Conns : \E task \in cs[c].tasks : DeriveSharedSecret(c, task)
    \/ \E c \in Conns : HandleIceCandidate(c)
    \/ \E c \in Conns : ClientFrameArrives(c)

HandshakeSpec == Init /\ [][HandshakeNext]_vars

\* Every step of the relay and of a client that can be taken is taken in the
\* end; creating, opening and connecting are up to the users.
HandshakeFair ==
    /\ HandshakeSpec
    /\ \A c \in Conns :
          /\ WF_vars(ResumeExist(c))
          /\ WF_vars(ResumeJoin(c))
          /\ WF_vars(ClientDispatch(c))
          /\ WF_vars(KeyPairGenerated(c))
          /\ WF_vars(InitiateConnection(c))
          /\ WF_vars(\E task \in cs[c].tasks : DeriveSharedSecret(c, task))
          /\ WF_vars(ClientFrameArrives(c))

\* The relay with its handlers interleaved, for one auth fewer than Spec
\* follows, and a store whose commands may fail: under a handleAuth, under
\* the leaveSession of a close event, and under the routes of the Control API.
FailNext ==
    \/ \E sid \in SessionIds, secs \in ExpiryChoices :
          CreateSession(sid, secs) /\ UNCHANGED <<callVars, relayVars>>
    \/ \E c \in Conns : TransportClosing(c)
    \/ \E c \in Conns, sid \in SessionIds : nauth < RelayAuths /\ RecvAuth(c, sid)
    \/ \E c \in Conns : ResumeExist(c)
    \/ \E c \in Conns : ResumeClean(c)
    \/ \E c \in Conns : ResumeJoin(c)
    \/ \E c \in Conns : HandleDisconnect(c)
    \/ \E c \in Conns : ResumeLeave(c)
    \/ \E c \in Conns : StoreCallFails(c)
    \/ \E c \in Conns : LeaveFails(c)
    \/ \E route \in Routes, sid \in SessionIds, executed \in BOOLEAN :
          ApiStoreFails(route, sid, executed)

FailSpec == Init /\ [][FailNext]_vars

\* The relay with two sessions: events are taken one after the other, the
\* clock stands still, nobody disconnects, and connections send auth for
\* either session and messages of every kind, IsoMsgs of them.
IsoMsgs == MaxMsgs

IsoNext ==
    \/ \E sid \in Uuids, secs \in ExpiryChoices :
          CreateSession(sid, secs) /\ UNCHANGED <<callVars, relayVars>>
    \/ Quiescent /\ \E c \in Conns, sid \in Uuids :
          nauth < MaxAuths /\ RecvAuth(c, sid)
    \/ Quiescent /\ \E c \in Conns, data \in Frames :
          nmsg < IsoMsgs /\ RecvMessage(c, data)
    \/ \E c \in Conns : ResumeExist(c)
    \/ \E c \in Conns : ResumeJoin(c)

IsoSpec == Init /\ [][IsoNext]_vars

\* The relay when the only close events are those of a connection whose
\* first auth is being handled: auth handlers run one at a time, each
\* connection sends auth while it is not registered, and its transport may
\* close between the receipt of the message and the registration.
CloseNext ==
    \/ \E sid \in SessionIds, secs \in ExpiryChoices :
          CreateSession(sid, secs) /\ UNCHANGED <<callVars, relayVars>>
    \/ NoAuthInFlight /\ \E c \in Conns, sid \in SessionIds :
          nauth < MaxAuths /\ clients[c] = None /\ RecvAuth(c, sid)
    \/ \E c \in Conns :
          h[c].pc # "idle" /\ clients[c] = None /\ HandleDisconnect(c)
    \/ \E c \in Conns : ResumeExist(c)
    \/ \E c \in Conns : ResumeClean(c)
    \/ \E c \in Conns : ResumeJoin(c)

CloseSpec == Init /\ [][CloseNext]_vars

\* Every reader of the store with the clock running: the relay's events,
\* taken one after the other, and the direct callers of getSession,
\* joinSession and leaveSession, MaxCalls auths and direct calls in total.
ReadNext ==
    \/ \E sid \in SessionIds, secs \in ExpiryChoices :
          CreateSession(sid, secs) /\ UNCHANGED <<callVars, relayVars>>
    \/ Tick /\ UNCHANGED <<callVars, relayVars>>
    \/ Quiescent /\ \E c \in Conns : TransportClosing(c)
    \/ Quiescent /\ \E c \in Conns, sid \in SessionIds :
          nauth + CallsStarted < MaxCalls /\ RecvAuth(c, sid)
    \/ Quiescent /\ \E c \in Conns : HandleDisconnect(c)
    \/ \E c \in Conns : ResumeExist(c)
    \/ \E c \in Conns : ResumeClean(c)
    \/ \E c \in Conns : ResumeJoin(c)
    \/ \E c \in Conns : ResumeLeave(c)
    \/ \E k \in Callers, sid \in SessionIds, op \in {"get", "join", "leave"} :
          nauth + CallsStarted < MaxCalls /\ StartCall(k, op, sid)
    \/ \E k \in Callers : ResumeCall(k)

ReadSpec == Init /\ [][ReadNext]_vars

\* The store under its direct callers and the relay together, the clock
\* running and nobody disconnecting: auths and messages are taken up when
\* no handler is in flight, FrameEvents auths, messages and direct calls in
\* total.
FrameEvents == MaxCalls

EventsStarted == nauth + nmsg + CallsStarted

FrameNext ==
    \/ \E sid \in SessionIds, secs \in ExpiryChoices :
          CreateSession(sid, secs) /\ UNCHANGED <<callVars, relayVars>>
    \/ Tick /\ UNCHANGED <<callVars, relayVars>>
    \/ Quiescent /\ \E c \in Conns, sid \in SessionIds :
          EventsStarted < FrameEvents /\ RecvAuth(c, sid)
    \/ Quiescent /\ \E c \in Conns, data \in Frames :
          EventsStarted < FrameEvents /\ RecvMessage(c, data)
    \/ \E c \in Conns : ResumeExist(c)
    \/ \E c \in Conns : ResumeJoin(c)
    \/ \E k \in Callers, sid \in SessionIds, op \in {"get", "join", "leave"} :
          EventsStarted < FrameEvents /\ StartCall(k, op, sid)
    \/ \E k \in Callers : ResumeCall(k)

FrameSpec == Init /\ [][FrameNext]_vars

\* ------------------------------------------------------------------ properties
StoredCount(sid) == store[sid].session.participant_count

InCall(k, op, pc) == calls[k] # None /\ calls[k].op = op /\ calls[k].pc = pc

\* C1: under every interleaving of the read and write steps of concurrent
\* joinSession and leaveSession calls, the participant_count stored for a
\* session is always 0, 1 or 2.
C1_CountInRange ==
    \A sid \in SessionIds : store[sid] # None => StoredCount(sid) \in {0, 1, 2}

\* A join and a leave that both read before either wrote have both written.
C1_Witness ==
    \E j, l \in Callers :
        /\ InCall(j, "join", "set") /\ InCall(l, "leave", "set")
        /\ calls[j].data.participant_count = 2
        /\ calls[l].data.participant_count = 0

NoLeaveCalled(sid) ==
    /\ tally[sid].leaves = 0
    /\ \A k \in Callers : ~(calls[k] # None /\ calls[k].op = "leave" /\ calls[k].sid = sid)

NoCallInFlight(sid) == \A k \in Callers : calls[k] # None => calls[k].sid # sid

\* C2: joinSession is atomic for concurrent callers: with no leaves, at most
\* two joinSession calls on a session return it, and once the calls have
\* returned the stored participant_count equals the number of successful joins.
C2_JoinAtomic ==
    \A sid \in SessionIds :
        NoLeaveCalled(sid) =>
            /\ tally[sid].joinOk <= 2
            /\ (store[sid] # None /\ NoCallInFlight(sid)
                    => StoredCount(sid) = tally[sid].joinOk)

\* The connections the sessions map holds for a session id.
RegistryOf(sid) == IF sessions[sid] = 0 THEN {} ELSE sets[sessions[sid]]

\* The connections whose ClientInfo names a session id.
ClientsOf(sid) == {c \in Conns : clients[c] # None /\ clients[c].sessionId = sid}

\* C3: at every instant the registry holds at most two connections for a
\* session id, whatever the interleaving of auth handlers and disconnects.
C3_AtMostTwo ==
    \A sid \in SessionIds : Cardinality(RegistryOf(sid)) <= 2

\* C4: reconcile -> check capacity -> register is atomic per session: two
\* connections whose auth handlers have finished are never both initiator of
\* the same session, and both are in the session's registry entry.
C4_AuthAtomic ==
    \A sid \in SessionIds : \A a, b \in ClientsOf(sid) :
        (a # b /\ h[a].pc = "idle" /\ h[b].pc = "idle") =>
            /\ ~(clients[a].role = "initiator" /\ clients[b].role = "initiator")
            /\ {a, b} \subseteq RegistryOf(sid)

HasError(c, e) == \E i \in 1 .. Len(inbox[c]) : inbox[c][i] = ErrorMsg(e)

\* Connections a and b have each sent auth once, a first, for a session that
\* existed at both attempts and has not expired; both transports are open and
\* every handler has finished.
AuthedInTurn(a, b, sid) ==
    /\ Quiescent
    /\ nauth = 2
    /\ ws[a] = "OPEN" /\ ws[b] = "OPEN"
    /\ store[sid] # None /\ now < store[sid].session.expires_at
    /\ ~HasError(a, "Session expired or not found")
    /\ ~HasError(b, "Session expired or not found")

\* The first connection alone has sent auth, once, under the same conditions.
AuthedAlone(a, sid) ==
    /\ Quiescent
    /\ nauth = 1
    /\ ws[a] = "OPEN"
    /\ store[sid] # None /\ now < store[sid].session.expires_at
    /\ ~HasError(a, "Session expired or not found")

\* C5: when A and then B authenticate for a fresh session, A's handler
\* finishing before B's starts, A is acknowledged as initiator with
\* participant_count 1 and B as responder with participant_count 2 (and ready
\* reaches both only after B's acknowledgment).
C5_RolesInOrder ==
    \A sid \in SessionIds :
        /\ AuthedAlone(ConnSeq[1], sid) =>
              inbox[ConnSeq[1]] = <<AckMsg("initiator", 1)>>
        /\ AuthedInTurn(ConnSeq[1], ConnSeq[2], sid) =>
              /\ inbox[ConnSeq[1]] = <<AckMsg("initiator", 1), ReadyMsg>>
              /\ inbox[ConnSeq[2]] = <<AckMsg("responder", 2), ReadyMsg>>

C5_Witness ==
    \E sid \in SessionIds :
        /\ AuthedInTurn(ConnSeq[1], ConnSeq[2], sid)
        /\ inbox[ConnSeq[2]] = <<AckMsg("responder", 2), ReadyMsg>>

\* The messages a step appends to a connection's inbox.
Gained(d) == SubSeq(inbox'[d], Len(inbox[d]) + 1, Len(inbox'[d]))
GotReady(d) == \E i \in 1 .. Len(Gained(d)) : Gained(d)[i] = ReadyMsg

\* The step is the registration that ends a successful auth of c for sid.
Registering(c, sid) ==
    /\ h[c].pc = "join" /\ h[c].call.pc = "set" /\ h[c].sid = sid
    /\ h'[c].pc = "idle"

RegistryAfter(sid) == IF sessions'[sid] = 0 THEN {} ELSE sets'[sessions'[sid]]

\* C6: ready is sent only by the step in which a successful auth brings the
\* session's registry from one connection to two, and then to both of them
\* (each open one); the new connection gets its acknowledgment before ready;
\* nobody gets ready while alone in the registry.
C6_ReadyOnSecond ==
    [][ \A d \in Conns : GotReady(d) =>
          \E c \in Conns, sid \in SessionIds :
              /\ Registering(c, sid)
              /\ c \notin RegistryOf(sid)
              /\ Cardinality(RegistryOf(sid)) < 2
              /\ Cardinality(RegistryAfter(sid)) = 2
              /\ {c, d} \subseteq RegistryAfter(sid)
              /\ \A e \in RegistryAfter(sid) : ws[e] = "OPEN" => GotReady(e)
              /\ ws[c] = "OPEN" =>
                    /\ Len(Gained(c)) = 2
                    /\ Gained(c)[1].type = "auth"
                    /\ Gained(c)[2] = ReadyMsg
      ]_vars

\* The session's registry entry holds two connections other than c, both
\* registered for it with open transports, and c is open and not registered.
TwoOpenBesides(c, sid) ==
    /\ Cardinality(RegistryOf(sid)) = 2
    /\ c \notin RegistryOf(sid)
    /\ \A e \in RegistryOf(sid) : ws[e] = "OPEN" /\ e \in ClientsOf(sid)
    /\ clients[c] = None
    /\ ws[c] = "OPEN"

\* The step resumes c's auth for sid from the existence check, the session
\* having been found unexpired: the step that runs the capacity check.
DecidingAuth(c, sid) ==
    /\ h[c].pc = "exist" /\ h[c].sid = sid
    /\ h[c].call.data # None /\ ~Expired(h[c].call.data, now)
    /\ h'[c] # h[c]

\* C7: an auth by a third connection against a session with two registered,
\* open connections is rejected with 'Session is full' sent to the third
\* only; it is not registered, the two stay registered with their roles and
\* get no message, and the stored participant_count is unchanged.
C7_ThirdRejected ==
    [][ \A c \in Conns, sid \in SessionIds :
          (TwoOpenBesides(c, sid) /\ DecidingAuth(c, sid)) =>
              /\ h'[c] = Idle
              /\ inbox' = [inbox EXCEPT ![c] = Append(@, ErrorMsg("Session is full"))]
              /\ clients' = clients
              /\ RegistryAfter(sid) = RegistryOf(sid)
              /\ store' = store
      ]_vars

C7_Witness ==
    \E c \in Conns, sid \in SessionIds :
        /\ TwoOpenBesides(c, sid)
        /\ h[c].pc = "idle"
        /\ inbox[c] = <<ErrorMsg("Session is full")>>
        /\ \A e \in RegistryOf(sid) : inbox[e][Len(inbox[e])] = ReadyMsg
        /\ StoredCount(sid) = 2

\* The roles acknowledged to c, in order.
AckedRoles(c) ==
    LET acks == SelectSeq(inbox[c], LAMBDA m : m.type = "auth")
    IN  [i \in 1 .. Len(acks) |-> acks[i].role]

\* C8: a connection's role is never renegotiated within a session: every
\* acknowledgment sent to it carries the role of the first one, and so does
\* the role the relay records for it.
C8_RoleStable ==
    \A c \in Conns :
        Len(AckedRoles(c)) > 0 =>
            /\ \A i \in 1 .. Len(AckedRoles(c)) : AckedRoles(c)[i] = AckedRoles(c)[1]
            /\ clients[c] # None => clients[c].role = AckedRoles(c)[1]

\* The step is the close of c's transport while c is registered for sid.
Closes(c, sid) ==
    /\ clients[c] # None /\ clients[c].sessionId = sid
    /\ ws[c] # "CLOSED" /\ ws'[c] = "CLOSED"

\* C9: when a registered connection's transport closes, the relay removes it
\* from the registry, issues exactly one leaveSession for its session, and
\* sends exactly one peer-left to each remaining connection of the session
\* whose transport is open and nothing to anyone else; the remaining
\* connections stay registered.
C9_DisconnectCleansUp ==
    [][ \A c \in Conns, sid \in SessionIds :
          Closes(c, sid) =>
              /\ clients'[c] = None
              /\ c \notin RegistryAfter(sid)
              /\ leaves[c] = None /\ leaves'[c] # None
              /\ leaves'[c].op = "leave" /\ leaves'[c].sid = sid
              /\ \A d \in ClientsOf(sid) \ {c} :
                    /\ clients'[d] = clients[d]
                    /\ d \in RegistryOf(sid) => d \in RegistryAfter(sid)
                    /\ ws[d] = "OPEN" => Gained(d) = <<PeerLeftMsg>>
              /\ \A d \in Conns \ ClientsOf(sid) : Gained(d) = <<>>
              /\ Gained(c) = <<>>
      ]_vars

AllClosed == \A c \in Conns : ws[c] \in {"NONE", "CLOSED"}

\* C10: once every connection that authenticated for an unexpired session
\* has closed and every leaveSession has completed, the stored
\* participant_count is 0.
C10_CountReturnsToZero ==
    \A sid \in SessionIds :
        (AllClosed /\ Quiescent /\ store[sid] # None) => StoredCount(sid) = 0

\* The frame carrying a message of type t with payload p.
FrameOf(t, p) == [json |-> TRUE, type |-> t, payload |-> p]

\* The step is connection a, registered for sid, sending the frame `data`.
SendsAs(a, sid, data) ==
    /\ clients[a] # None /\ clients[a].sessionId = sid
    /\ RecvMessage(a, data)

\* The connections other than a registered for sid with an open transport.
OpenPeers(a, sid) == {b \in ClientsOf(sid) \ {a} : ws[b] = "OPEN"}

\* C11: when a connection authenticated in a session sends offer, answer or
\* ice-candidate with payload p, every open peer of the session receives
\* exactly one message, of the same type and with payload p.
C11_RelayRoundTrip ==
    [][ \A a \in Conns, sid \in SessionIds, t \in RelayTypes, p \in Payloads :
          SendsAs(a, sid, FrameOf(t, p)) =>
              \A b \in OpenPeers(a, sid) :
                  Gained(b) = <<[type |-> t, payload |-> p]>>
      ]_vars

\* C12: a message of any type other than auth sent by an authenticated
\* connection is forwarded unchanged to its open peers.
C12_AllTypesForwarded ==
    [][ \A a \in Conns, sid \in SessionIds, t \in RelayTypes \cup OtherTypes :
          SendsAs(a, sid, FrameOf(t, StringPayload)) =>
              \A b \in OpenPeers(a, sid) :
                  Gained(b) = <<[type |-> t, payload |-> StringPayload]>>
      ]_vars

\* C13: offer, answer or ice-candidate from an authenticated connection with
\* no open peer is dropped silently: no connection receives anything, the
\* sender included, and the registry and the store are unchanged.
C13_SilentDrop ==
    [][ \A a \in Conns, sid \in SessionIds, t \in RelayTypes, p \in Payloads :
          (SendsAs(a, sid, FrameOf(t, p)) /\ OpenPeers(a, sid) = {}) =>
              /\ inbox' = inbox
              /\ UNCHANGED <<clients, sessions, sets, store>>
      ]_vars

\* C14 as stated: with no peer to forward to, the sender is sent an error.
C14_AbsentTargetError ==
    [][ \A a \in Conns, sid \in SessionIds, t \in RelayTypes, p \in Payloads :
          (SendsAs(a, sid, FrameOf(t, p)) /\ OpenPeers(a, sid) = {}) =>
              /\ Len(Gained(a)) = 1
              /\ Gained(a)[1].type = "error"
      ]_vars

\* C14, amended: with no peer to forward to, nothing is sent to anyone when
\* the relay holds a registry entry for the session, and the only message
\* otherwise is 'Session not found' to the sender.
C14_AbsentTargetDropped ==
    [][ \A a \in Conns, sid \in SessionIds, t \in RelayTypes, p \in Payloads :
          (SendsAs(a, sid, FrameOf(t, p)) /\ OpenPeers(a, sid) = {}) =>
              /\ \A d \in Conns \ {a} : Gained(d) = <<>>
              /\ Gained(a) = IF sessions[sid] # 0 THEN <<>>
                             ELSE <<ErrorMsg("Session not found")>>
      ]_vars

C14_Witness ==
    \E a \in Conns, sid \in SessionIds :
        /\ ClientsOf(sid) = {a} /\ RegistryOf(sid) = {a}
        /\ ws[a] = "OPEN" /\ h[a].pc = "idle"
        /\ \A d \in Conns \ {a} : ws[d] = "NONE"
        /\ nmsg = 1
        /\ inbox[a] = <<AckMsg("initiator", 1)>>

\* C16: offer, answer or ice-candidate from a connection that is not
\* authenticated (no auth sent, auth in flight, or auth rejected) is
\* delivered to no other connection and answered with 'Not authenticated'
\* to the sender only.
C16_UnauthenticatedNotRelayed ==
    [][ \A c \in Conns, t \in RelayTypes, p \in Payloads :
          (clients[c] = None /\ RecvMessage(c, FrameOf(t, p))) =>
              inbox' = [inbox EXCEPT ![c] = Append(@, ErrorMsg("Not authenticated"))]
      ]_vars

C16_Witness ==
    \E c, d \in Conns :
        /\ c # d
        /\ clients[c] = None /\ h[c].pc = "join"
        /\ clients[d] # None /\ ws[d] = "OPEN"
        /\ inbox[c] = <<ErrorMsg("Not authenticated")>>

\* The step ends c's auth handler without an acknowledgment, c being open.
AuthRejected(c) ==
    /\ h[c].pc # "idle" /\ h'[c].pc = "idle"
    /\ ws[c] = "OPEN"
    /\ \A i \in 1 .. Len(Gained(c)) : Gained(c)[i].type # "auth"

\* The session exists, unexpired, and is at capacity in the registry or in
\* the store.
ExistsAtCapacity(sid) ==
    /\ store[sid] # None
    /\ ~Expired(store[sid].session, now)
    /\ Cardinality(RegistryOf(sid)) >= 2 \/ StoredCount(sid) >= 2

\* C15: a rejected auth sends exactly one error, to its sender only;
\* 'Session is full' is sent only for an existing session at capacity and
\* 'Session expired or not found' for a session missing or expired; an auth
\* without session id and a frame that is not JSON get their own errors.
C15_ErrorMatchesCause ==
    [][ /\ \A c \in Conns :
              AuthRejected(c) =>
                  /\ \A d \in Conns \ {c} : Gained(d) = <<>>
                  /\ \/ /\ Gained(c) = <<ErrorMsg("Session is full")>>
                        /\ ExistsAtCapacity(h[c].sid)
                     \/ /\ Gained(c) = <<ErrorMsg("Session expired or not found")>>
                        /\ h[c].pc = "exist"
                        /\ \/ h[c].call.data = None
                           \/ Expired(h[c].call.data, now)
        /\ \A c \in Conns :
              RecvMessage(c, [json |-> FALSE]) =>
                  inbox' = [inbox EXCEPT ![c] = Append(@, ErrorMsg("Invalid message format"))]
        /\ \A c \in Conns :
              RecvMessage(c, FrameOf("auth", StringPayload)) =>
                  inbox' = [inbox EXCEPT ![c] = Append(@, ErrorMsg("Missing session ID"))]
      ]_vars

\* The connections whose registration the step removes.
Unregistered == {d \in Conns : clients[d] # None /\ clients'[d] = None}

\* The leaveSession calls the step starts or queues: the one of a close
\* event, and those of the clean-up loop an auth handler enters.
LeavesScheduled ==
    Cardinality({c \in Conns : leaves[c] = None /\ leaves'[c] # None})
        + (IF \E c \in Conns : h[c].pc = "exist" /\ h'[c].pc = "clean"
           THEN LET c == CHOOSE c \in Conns : h[c].pc = "exist" /\ h'[c].pc = "clean"
                IN  h'[c].left + 1
           ELSE 0)

\* C17: the step of an auth that runs the capacity check first removes every
\* connection registered for the session whose transport is closing or
\* closed; and every step issues exactly one leaveSession per connection it
\* unregisters, be it by reconciliation or by the close event.
C17_ReconcileAndLeaveOnce ==
    [][ /\ \A c \in Conns, sid \in SessionIds :
              DecidingAuth(c, sid) =>
                  \A d \in ClientsOf(sid) :
                      IsStale(d) => /\ d \in Unregistered
                                    /\ d \notin RegistryAfter(sid)
        /\ LeavesScheduled = Cardinality(Unregistered)
      ]_vars

\* a authenticated alone for sid, its transport then died with no close
\* event handled, and c was then acknowledged for sid; nothing else happened.
DiedThenJoined(a, c, sid) ==
    /\ a # c /\ nauth = 2 /\ Quiescent
    /\ ws[a] = "CLOSING" /\ ws[c] = "OPEN"
    /\ inbox[a] = <<AckMsg("initiator", 1)>>
    /\ Len(inbox[c]) >= 1 /\ inbox[c][1].type = "auth"
    /\ clients[c] # None /\ clients[c].sessionId = sid

\* C18 as stated: in that scenario the newcomer is accepted as responder.
C18_NewcomerResponder ==
    \A a, c \in Conns, sid \in SessionIds :
        DiedThenJoined(a, c, sid) => inbox[c][1].role = "responder"

\* C18, amended: in that scenario the dead connection is evicted, the
\* newcomer is accepted as initiator with participant_count 1, and the
\* stored participant_count equals the one live registered connection.
C18_NewcomerInitiator ==
    \A a, c \in Conns, sid \in SessionIds :
        DiedThenJoined(a, c, sid) =>
            /\ inbox[c] = <<AckMsg("initiator", 1)>>
            /\ clients[c].role = "initiator"
            /\ clients[a] = None
            /\ RegistryOf(sid) = {c}
            /\ store[sid] # None => StoredCount(sid) = 1

C18_Witness ==
    \E a, c \in Conns, sid \in SessionIds :
        /\ DiedThenJoined(a, c, sid)
        /\ store[sid] # None /\ StoredCount(sid) = 1
        /\ RegistryOf(sid) = {c}

\* Connection d was acknowledged at some time.
WasAcked(d) == \E i \in 1 .. Len(inbox[d]) : inbox[d][i].type = "auth"

\* The step ends the auth of a new connection c for sid while b is the one
\* connection registered for sid, open, and told that its peer left, and
\* a connection acknowledged earlier has been closed.
ReconnectEnds(c, b, sid) ==
    /\ h[c].pc # "idle" /\ h[c].sid = sid /\ h'[c].pc = "idle"
    /\ clients[c] = None /\ ws[c] = "OPEN"
    /\ b # c /\ ws[b] = "OPEN"
    /\ ClientsOf(sid) = {b} /\ RegistryOf(sid) = {b}
    /\ \E a \in Conns \ {b, c} : ws[a] = "CLOSED" /\ WasAcked(a)
    /\ \E i \in 1 .. Len(inbox[b]) : inbox[b][i] = PeerLeftMsg

\* C19: after one of two registered connections has disconnected, the auth
\* of a new connection that arrives after the close event is accepted even
\* while the leaveSession of the disconnect is in flight: it is registered
\* with the remaining connection and ready is sent to both.
C19_ReconnectAccepted ==
    [][ \A c, b \in Conns, sid \in SessionIds :
          ReconnectEnds(c, b, sid) =>
              /\ clients'[c] = [sessionId |-> sid, role |-> "responder"]
              /\ RegistryAfter(sid) = {b, c}
              /\ Gained(c) = <<AckMsg("responder", 2), ReadyMsg>>
              /\ Gained(b) = <<ReadyMsg>>
      ]_vars

\* C20: every stored session record has status OPEN at participant_count 0,
\* JOINED at 1 and CLOSED at 2.
C20_StatusTracksCount ==
    \A sid \in SessionIds :
        store[sid] # None =>
            store[sid].session.status =
                (CASE StoredCount(sid) = 0 -> "OPEN"
                   [] StoredCount(sid) = 1 -> "JOINED"
                   [] StoredCount(sid) = 2 -> "CLOSED"
                   [] OTHER -> "none")

C20_Witness ==
    \E sid \in SessionIds :
        /\ store[sid] # None
        /\ tally[sid].joinOk = 2 /\ tally[sid].leaves = 1
        /\ NoCallInFlight(sid)
        /\ StoredCount(sid) = 0
        /\ store[sid].session.status = "OPEN"

\* No joinSession has been called for the session.
NoJoinCalled(sid) ==
    /\ tally[sid].joinOk = 0 /\ tally[sid].joinRej = 0
    /\ \A k \in Callers : ~(calls[k] # None /\ calls[k].op = "join" /\ calls[k].sid = sid)

\* C21: leaveSession is idempotent at the floor: on a session at
\* participant_count 0, whatever number of leaveSession calls run (and no
\* join), the stored record stays at participant_count 0 with status OPEN;
\* and the stored participant_count is never negative under any calls.
C21_LeaveFloor ==
    \A sid \in SessionIds :
        store[sid] # None =>
            /\ StoredCount(sid) >= 0
            /\ NoJoinCalled(sid) =>
                  /\ StoredCount(sid) = 0
                  /\ store[sid].session.status = "OPEN"

\* Three leaveSession calls have completed on a session nobody joined.
C21_Witness ==
    \E sid \in SessionIds :
        /\ store[sid] # None
        /\ NoJoinCalled(sid) /\ NoCallInFlight(sid)
        /\ tally[sid].leaves >= 3
        /\ StoredCount(sid) = 0

\* The step resumes k's leaveSession from the GET of its getSession.
LeaveActs(k) == InCall(k, "leave", "get") /\ ResumeCall(k)

\* C22: leaveSession never deletes a session: a leaveSession that finds the
\* session present and unexpired leaves a record that getSession returns,
\* with the participant_count it found decreased by one and floored at 0,
\* also when that is 0; one that finds no record writes none.
C22_LeaveNeverDeletes ==
    [][ \A k \in Callers :
          LeaveActs(k) =>
              LET found == calls[k].data
                  sid == calls[k].sid
              IN  /\ (found # None /\ ~Expired(found, now)) =>
                        /\ store'[sid] # None
                        /\ ~Expired(store'[sid].session, now')
                        /\ store'[sid].session.participant_count =
                              Max(0, found.participant_count - 1)
                  /\ found = None => store' = store
      ]_vars

\* A leaveSession has brought a joined session back to participant_count 0
\* and the record is still stored.
C22_Witness ==
    \E sid \in SessionIds :
        /\ store[sid] # None
        /\ tally[sid].joinOk = 1 /\ tally[sid].leaves = 1
        /\ NoCallInFlight(sid)
        /\ StoredCount(sid) = 0
        /\ ~Expired(store[sid].session, now)

\* The call awaits the reply of its GET, and the record it will be handed
\* is one whose expires_at the clock has passed.
ReadsPastExpiry(call) ==
    /\ call.pc = "get"
    /\ call.data # None
    /\ now > call.data.expires_at

\* The step answers c's auth with 'Session expired or not found' and does
\* nothing else.
AnsweredExpired(c) ==
    /\ h'[c] = Idle
    /\ inbox' = SendError(inbox, c, "Session expired or not found")
    /\ UNCHANGED <<store, clients, sessions, sets>>

C24_DeleteIsFinal ==
    \A sid \in SessionIds : tally[sid].dels > 0 => store[sid] = None

\* The record createSession writes at time t with a TTL of ttl seconds.
CreatedRecord(sid, ttl, t) ==
    [session |-> [session_id |-> sid,
                   expires_at |-> t + ttl * 1000,
                   status |-> "OPEN",
                   participant_count |-> 0,
                   created_at |-> t],
     until |-> t + ttl * 1000]

\* The step answers a POST /sessions asking for `req` with 201, having
\* stored the record of a session with a TTL of ttl seconds, and reports ttl.
CreatesWithTtl(sid, ttl) ==
    /\ store'[sid] = CreatedRecord(sid, ttl, now)
    /\ http'.session_id = sid
    /\ http'.expires_in_seconds = ttl
    /\ ttl <= MAX_EXPIRY

\* C25: a session created through POST /sessions has status OPEN,
\* participant_count 0 and a TTL of min(requested, 3600), 900 when nothing is
\* requested; expires_at is the creation time plus the TTL, and the reported
\* expires_in_seconds is at most 3600.
C25_TtlIsMinOfRequested ==
    [][ \A sid \in SessionIds, req \in Requests :
          (PostSessions(sid, req) /\ http'.status = 201) =>
              CreatesWithTtl(sid, Min(IF req.given THEN req.value ELSE 900, 3600))
      ]_vars

\* The step is the write of k's joinSession or leaveSession: updateSession
\* runs on the record the call read and modified.
Writes(k) ==
    /\ calls[k] # None /\ calls[k].pc = "get" /\ calls[k].op \in {"join", "leave"}
    /\ ResumeCall(k)
    /\ calls'[k] # None /\ calls'[k].pc = "set"

\* C26: every write of joinSession or leaveSession stores the record with a
\* TTL of the whole seconds remaining until its expires_at, so that the
\* stored record never outlives expires_at; with no whole second remaining
\* the record is deleted instead.
C26_TtlIsRemainingTime ==
    [][ \A k \in Callers :
          Writes(k) =>
              LET sid == calls[k].sid
                  remaining == (calls[k].data.expires_at - now) \div 1000
              IN  IF remaining > 0
                  THEN /\ store'[sid] # None
                       /\ store'[sid].until = now + remaining * 1000
                       /\ store'[sid].until <= store'[sid].session.expires_at
                  ELSE store'[sid] = None
      ]_vars

\* The messages of its socket that client c has dispatched.
Received(c) == {inbox[c][i] : i \in 1 .. cs[c].read}

\* The step has client c write a frame of type t to its socket.
WritesFrame(c, t) ==
    /\ Len(cs'[c].out) = Len(cs[c].out) + 1
    /\ cs'[c].out[Len(cs'[c].out)].type = t

\* a and b are the two connections the relay has acknowledged for a session.
Paired(a, b) ==
    /\ a # b
    /\ clients[a] # None /\ clients[b] # None
    /\ clients[a].sessionId = clients[b].sessionId

\* a and b hold the same shared key, each derived from its own key pair and
\* the other's public key.
SharedKey(a, b) ==
    /\ cs[a].sharedSecret = DeriveKey(a, b)
    /\ cs[b].sharedSecret = DeriveKey(b, a)
    /\ cs[a].sharedSecret = cs[b].sharedSecret

\* C27: when two clients have authenticated for a session and nobody
\* disconnects, the initiator writes its offer only after it has received
\* ready, the responder writes its answer only after it has received the
\* offer, and in the end both hold the same shared key.
C27_HandshakeCompletes ==
    /\ [][ \A c \in Conns :
              /\ WritesFrame(c, "offer") =>
                    /\ cs[c].role = "initiator"
                    /\ ReadyMsg \in Received(c)
              /\ WritesFrame(c, "answer") =>
                    \E m \in Received(c) : m.type = "offer"
          ]_vars
    /\ \A a, b \in Conns : Paired(a, b) ~> SharedKey(a, b)


\* ---------------------------------------------------------------------------
\* C28: the link secret is never transmitted.  Whatever a client has sent to
\* the server is a creation request with nothing but expires_in_seconds, an
\* auth message with nothing but the session id, or an offer, answer or
\* ice-candidate whose payload is the description with the public key or the
\* candidate; no field of them is a secret, and neither the store's records,
\* the relay's registry and handlers, the messages the relay delivers nor the
\* HTTP response hold one.
Secrets == {GenerateSecret(c) : c \in Conns}

CarriesNoSecret(payload) ==
    \/ /\ payload.kind = "sdp"
       /\ DOMAIN payload = {"kind", "sdp", "publicKey"}
       /\ payload.sdp \notin Secrets
       /\ DOMAIN payload.publicKey = {"b64"}
       /\ payload.publicKey.b64 \notin Secrets
    \/ /\ payload.kind = "candidate"
       /\ DOMAIN payload = {"kind", "candidate"}
       /\ payload.candidate \notin Secrets

SentWithoutSecret(m) ==
    IF "given" \in DOMAIN m
    THEN DOMAIN m = {"given", "value"} /\ m.value \in Int
    ELSE IF m.type = "auth"
    THEN DOMAIN m = {"json", "type", "sessionId"} /\ m.sessionId \notin Secrets
    ELSE /\ m.type \in RelayTypes
         /\ DOMAIN m = {"json", "type", "payload"}
         /\ CarriesNoSecret(m.payload)

C28_SecretNeverSent ==
    /\ SessionIds \cap Secrets = {}
    /\ \A c \in Conns :
          /\ \A m \in cs[c].sent : SentWithoutSecret(m)
          /\ \A i \in 1 .. Len(cs[c].out) : cs[c].out[i] \in cs[c].sent
          /\ clients[c] # None => clients[c].sessionId \in SessionIds
          /\ h[c].pc # "idle" => h[c].sid \in SessionIds
          /\ \A i \in 1 .. Len(inbox[c]) :
                "payload" \in DOMAIN inbox[c][i] =>
                    /\ DOMAIN inbox[c][i] = {"type", "payload"}
                    /\ CarriesNoSecret(inbox[c][i].payload)
    /\ \A sid \in SessionIds :
          store[sid] # None => store[sid].session.session_id \in SessionIds
    /\ http # None /\ http.status = 201 => http.session_id \in SessionIds

\* A client holding a link secret has sent its auth message and a description
\* and a candidate, the relay has registered it, and its peer has been
\* delivered the description.
C28_Witness ==
    \E c, d \in Conns :
        /\ c # d
        /\ cs[c].sessionInfo # None
        /\ cs[c].sessionInfo.secret \in Secrets
        /\ AuthFrame(cs[c].sessionInfo) \in cs[c].sent
        /\ SignalingFrame("offer", c) \in cs[c].sent
        /\ IceFrame(c) \in cs[c].sent
        /\ clients[c] # None
        /\ \E i \in 1 .. Len(inbox[d]) : inbox[d][i].type = "offer"
        /\ \E i \in 1 .. Len(inbox[d]) : inbox[d][i].type = "ice-candidate"

\* ---------------------------------------------------------------------------
\* C29: the relay is blind to negotiation payloads.  The types of the messages
\* in every connection's inbox, in order:
TypesDelivered(box) ==
    [d \in Conns |-> [i \in 1 .. Len(box[d]) |-> box[d][i].type]]

\* the registry and the store hold session ids, roles, counts and times,
\* and no field for a payload:
NoPayloadKept ==
    /\ \A c \in Conns :
          /\ clients[c] # None => DOMAIN clients[c] = {"sessionId", "role"}
          /\ h[c].pc # "idle" => "payload" \notin DOMAIN h[c]
    /\ \A i \in SetIds : sets[i] \subseteq Conns
    /\ \A sid \in SessionIds :
          /\ sessions[sid] \in {0} \cup SetIds
          /\ store[sid] # None =>
                DOMAIN store[sid].session =
                    {"session_id", "expires_at", "status", "participant_count",
                     "created_at"}

\* and a step that takes up an offer, answer or ice-candidate with payload p
\* changes neither the registry, the roles, the handlers nor the store, and
\* delivers to every connection the types it would deliver, from the same
\* state, for the same message with any other payload q.
C29_PayloadBlind ==
    /\ []NoPayloadKept
    /\ [][ \A c \in Conns, t \in RelayTypes, p \in Payloads :
              RecvMessage(c, FrameOf(t, p)) =>
                  /\ UNCHANGED <<store, clients, sessions, sets, h, leaves, pend>>
                  /\ \A q \in Payloads :
                        TypesDelivered(inbox') =
                            TypesDelivered(RelayMessage(c, JsonParse(FrameOf(t, q))))
          ]_vars

\* A registered peer has been delivered a relayed message whose payload is a
\* number.
C29_Witness ==
    \E c \in Conns : \E i \in 1 .. Len(inbox[c]) :
        /\ inbox[c][i].type \in RelayTypes
        /\ inbox[c][i].payload.kind = "number"
        /\ clients[c] # None

\* ---------------------------------------------------------------------------
\* C30: store failures are contained.  The step in which the store call of a
\* handleAuth fails sends one error message to the originating connection
\* (none if its socket is no longer open) and nothing to any other; it adds
\* nobody to the registry, changes no registry entry and no store record,
\* ends the handler and leaves no reply pending for it, so that the relay
\* takes up the messages that follow.  A failed un-awaited leaveSession
\* sends nothing and changes nothing.  A store failure under a route of the
\* Control API is answered with status 500 and that route's fixed message,
\* and touches no state of the relay.
GenericErrors ==
    {"Failed to create session", "Failed to fetch session", "Failed to delete session"}

FailsUnderAuth(c) == h[c].pc # "idle" /\ h'[c].pc = "idle" /\ StoreCallFails(c)

SessionsHolding(c) == {sid \in Uuids : c \in RegistryOf(sid)}

C31_SessionIsolation ==
    /\ [](\A c \in Conns : Cardinality(SessionsHolding(c)) <= 1)
    /\ [][ \A a \in Conns, sid \in Uuids, t \in RelayTypes, p \in Payloads :
              SendsAs(a, sid, FrameOf(t, p)) =>
                  \A b \in Conns \ {a} :
                      Gained(b) # <<>> =>
                          clients[b] # None /\ clients[b].sessionId = sid
          ]_vars

\* ---------------------------------------------------------------------------
\* C32: store and registry agree at rest.  When no handler and no store call
\* is in flight, the stored participant_count of every unexpired session is
\* the number of connections in the session's registry entry.
C32_StoreMatchesRegistry ==
    Quiescent =>
        \A sid \in SessionIds :
            (store[sid] # None /\ ~Expired(store[sid].session, now)) =>
                store[sid].session.participant_count = Cardinality(RegistryOf(sid))

\* ---------------------------------------------------------------------------
\* C33: whenever ready is broadcast for a session, its registry entry holds
\* two connections, one with role initiator and one with role responder.
WithRole(sid, role) ==
    {c \in RegistryAfter(sid) : clients'[c] # None /\ clients'[c].role = role}

C33_OneInitiatorAtReady ==
    [][ \A c \in Conns, sid \in SessionIds :
          (Registering(c, sid) /\ GotReady(c)) =>
              /\ Cardinality(RegistryAfter(sid)) = 2
              /\ Cardinality(WithRole(sid, "initiator")) = 1
              /\ Cardinality(WithRole(sid, "responder")) = 1
      ]_vars

\* ---------------------------------------------------------------------------
\* C34: transport closure is terminal even during authentication.  In
\* CloseSpec a connection is CLOSED only because its transport closed while
\* its auth was being handled.  Once no handler is in flight such a
\* connection is not registered and the stored count counts at most the
\* connections that are registered and not closed; and the handler of a
\* connection that has closed sends ready to nobody.
LiveMembers(sid) == {d \in RegistryOf(sid) : ws[d] # "CLOSED"}

C34_ClosureIsTerminal ==
    /\ [](Quiescent =>
            /\ \A c \in Conns :
                  ws[c] = "CLOSED" =>
                      /\ clients[c] = None
                      /\ \A sid \in SessionIds : c \notin RegistryOf(sid)
            /\ \A sid \in SessionIds :
                  store[sid] # None =>
                      store[sid].session.participant_count
                          <= Cardinality(LiveMembers(sid)))
    /\ [][ \A c \in Conns :
              (h[c].pc # "idle" /\ h'[c].pc = "idle" /\ ws[c] = "CLOSED") =>
                  \A d \in Conns : ~GotReady(d)
          ]_vars

\* ---------------------------------------------------------------------------
\* C35: authentication is idempotent for a registered connection.  While the
\* handler of an auth for sid sent by a connection already registered for
\* sid is in flight (in IsoSpec nothing else of the relay runs meanwhile),
\* no step changes the stored participant_count of sid, the registry entry
\* of sid or the connection's ClientInfo with its role.
Reauthenticating(c, sid) ==
    /\ h[c].pc # "idle" /\ h[c].sid = sid
    /\ clients[c] # None /\ clients[c].sessionId = sid

C35_ReauthIdempotent ==
    [][ \A c \in Conns, sid \in Uuids :
          Reauthenticating(c, sid) =>
              /\ clients'[c] = clients[c]
              /\ RegistryAfter(sid) = RegistryOf(sid)
              /\ store[sid] # None =>
                    /\ store'[sid] # None
                    /\ store'[sid].session.participant_count
                          = store[sid].session.participant_count
      ]_vars

\* ---------------------------------------------------------------------------
\* C36: control messages cannot be spoofed by a peer.  A message that came
\* through relayMessage is the record [type, payload] of what a client sent;
\* every delivered message of type auth, ready, peer-left or error is one the
\* relay made itself, and a client's frame of type ready, peer-left or error
\* is answered with 'Unknown message type' and reaches nobody else.
ControlTypes == {"auth", "ready", "peer-left", "error"}

RelayTexts ==
    {"Invalid message format", "Unknown message type", "Missing session ID",
     "Session expired or not found", "Session is full", "Not authenticated",
     "Session not found"}

MadeByRelay(m) ==
    \/ m = ReadyMsg
    \/ m = PeerLeftMsg
    \/ \E e \in RelayTexts : m = ErrorMsg(e)
    \/ \E role \in {"initiator", "responder"}, n \in 1 .. Cardinality(Conns) :
          m = AckMsg(role, n)

C36_ControlNotSpoofed ==
    /\ [](\A d \in Conns : \A i \in 1 .. Len(inbox[d]) :
             inbox[d][i].type \in ControlTypes => MadeByRelay(inbox[d][i]))
    /\ [][ \A c \in Conns, t \in OtherTypes :
              RecvMessage(c, FrameOf(t, StringPayload)) =>
                  /\ Gained(c) = <<ErrorMsg("Unknown message type")>>
                  /\ \A d \in Conns \ {c} : Gained(d) = <<>>
          ]_vars

\* Two connections are registered for a session and open; one of them sent
\* a frame of a control type and holds the error, the other holds nothing
\* but its acknowledgment and ready.
C36_Witness ==
    \E c, d \in Conns :
        /\ c # d
        /\ clients[c] # None /\ clients[d] # None
        /\ clients[c].sessionId = clients[d].sessionId
        /\ d \in RegistryOf(clients[c].sessionId)
        /\ ws[c] = "OPEN" /\ ws[d] = "OPEN"
        /\ inbox[c][Len(inbox[c])] = ErrorMsg("Unknown message type")
        /\ Len(inbox[d]) = 2 /\ inbox[d][2] = ReadyMsg

\* ---------------------------------------------------------------------------
\* C37: in the client the key pair exists before it is needed.  Whenever
\* the client starts handling ready as initiator or an offer, its key pair
\* has been generated, and the handshake never fails for want of a key.
StartsHandling(c, types) ==
    /\ cs[c].read < Len(inbox[c])
    /\ inbox[c][cs[c].read + 1].type \in types
    /\ ClientDispatch(c)

C37_KeyPairBeforeUse ==
    /\ [][ \A c \in Conns :
              (\/ StartsHandling(c, {"ready"}) /\ cs[c].role = "initiator"
               \/ StartsHandling(c, {"offer"}))
                  => cs[c].keyPair = "ready"
          ]_vars
    /\ [](\A c \in Conns :
             cs[c].errors \cap {"Failed to initiate connection",
                                "Failed to establish connection"} = {})

\* ---------------------------------------------------------------------------
\* C38: a session record is mutated only by join and leave, and only in its
\* count and status.  No step changes session_id, created_at or expires_at
\* of a record that is there before and after it; the steps of a getSession
\* that read an unexpired record and of a joinSession that read a full one
\* leave the store as it is; and taking up a message other than a
\* well-formed auth changes neither the registry nor the store.
SameIdentity(a, b) ==
    /\ a.session_id = b.session_id
    /\ a.created_at = b.created_at
    /\ a.expires_at = b.expires_at

WritesNothing(call) ==
    /\ call.pc = "get"
    /\ call.data # None
    /\ ~Expired(call.data, now)
    /\ call.op = "get" \/ (call.op = "join" /\ IsFull(call.data))

C38_OnlyCountAndStatus ==
    /\ [][ \A sid \in SessionIds :
              (store[sid] # None /\ store'[sid] # None) =>
                  SameIdentity(store[sid].session, store'[sid].session)
          ]_vars
    /\ [][ \A k \in Callers :
              (calls[k] # None /\ WritesNothing(calls[k]) /\ ResumeCall(k)) =>
                  store' = store
          ]_vars
    /\ [][ \A c \in Conns, data \in Frames :
              RecvMessage(c, data) =>
                  UNCHANGED <<store, clients, sessions, sets>>
          ]_vars

\* A getSession has returned an unexpired record that is still stored, and
\* a message has been taken up with a connection registered.
C38_Witness ==
    /\ \E sid \in SessionIds : store[sid] # None /\ tally[sid].getOk > 0
    /\ nmsg > 0
    /\ \E c \in Conns : clients[c] # None

\* ---------------------------------------------------------------------------
\* C39: whatever expires_in_seconds is asked for, POST /sessions either
\* stores a session whose TTL is a positive number of seconds, at most
\* MAX_EXPIRY, and whose expires_at is later than its created_at, or stores
\* nothing; no stored session has an expires_at that is not after its
\* created_at.
StoresBounded(sid) ==
    \E ttl \in 1 .. MAX_EXPIRY :
        /\ store'[sid] = CreatedRecord(sid, ttl, now)
        /\ store'[sid].session.expires_at > store'[sid].session.created_at
        /\ http'.status = 201

StoresNothing == store' = store /\ http'.status = 500

C39_TtlPositiveAndBounded ==
    /\ [][ \A sid \in SessionIds, req \in Requests :
              PostSessions(sid, req) => (StoresBounded(sid) \/ StoresNothing)
          ]_vars
    /\ [](\A sid \in SessionIds :
             store[sid] # None =>
                 store[sid].session.expires_at > store[sid].session.created_at)

\* A request for the maximum or more was answered 201 and the session is
\* stored with the maximum as its lifetime.
C39_Witness ==
    \E sid \in SessionIds :
        /\ http # None /\ http.status = 201
        /\ http.expires_in_seconds = MAX_EXPIRY
        /\ store[sid] # None
        /\ store[sid].session.expires_at
              = store[sid].session.created_at + MAX_EXPIRY * 1000
=========================================================================
